---------------------------- MODULE Spec2Model ----------------------------
(***************************************************************************)
(* A model of src/script.js, the click-driven chess UI: the selection      *)
(* controller (onSquareClick), the promotion gate, the status presenter    *)
(* (updateStatus), the opponent mover (engineEvaluateAndAct) and the       *)
(* session controller (startNewGame), as handlers of one event loop.       *)
(*                                                                         *)
(* The rules collaborator (chess.js, `new Chess()`) is not part of the     *)
(* repository.  It is modelled by the rules of chess on a reduced board    *)
(* of 3 files and 3 ranks with kings, pawns and promoted pieces; castling, *)
(* en passant and the double pawn step do not arise on that board.  Rank 3 *)
(* stands for the white pawn's final rank ('8' in the script) and rank 1   *)
(* for the black pawn's.  A game is bounded to a few plies, so the         *)
(* fifty-move counter and threefold repetition cannot be reached in the    *)
(* event-loop specification; updateStatus's branches for them are checked  *)
(* in SpecStatus, where the predicates are free inputs.                    *)
(***************************************************************************)
EXTENDS Integers, Sequences, FiniteSets, TLC

\* ------------------------------------------------------------ bounds
\* Plies after which no human move is submitted any more.
MaxPlies == 4
\* Evaluation requests that may be in flight at once.
MaxInflight == 2
\* setTimeout callbacks that may be pending at once.
MaxTimers == 1
\* Clicks on the "start new game" button.
MaxNewGames == 1

\* ------------------------------------------------------------ squares
FileChars == <<"a", "b", "c">>
RankChars == <<"1", "2", "3">>

\* The rank characters shouldPromptPromotion compares to[1] with.
WhiteLastRank == "3"
BlackLastRank == "1"

\* A square is the two characters of its algebraic name, e.g. <<"c","3">>.
Squares == {<<FileChars[f], RankChars[r]>> : f \in 1..3, r \in 1..3}

FileNum == [ch \in {"a", "b", "c"} |-> CHOOSE i \in 1..3 : FileChars[i] = ch]
RankNum == [ch \in {"1", "2", "3"} |-> CHOOSE i \in 1..3 : RankChars[i] = ch]

\* null / undefined for values that are strings or squares in the script.
Null == << >>

Abs(x) == IF x < 0 THEN -x ELSE x
Sign(x) == IF x > 0 THEN 1 ELSE IF x < 0 THEN -1 ELSE 0

\* ------------------------------------------------------------ pieces
\* game.get(sq) is {type, color} or null; Empty stands for null.
Empty == [color |-> "-", type |-> "-"]
Pc(c, t) == [color |-> c, type |-> t]
Other(c) == IF c = "w" THEN "b" ELSE "w"

\* The reduced starting position, white (the human) to move:
\*    3  . K .
\*    2  p . P
\*    1  . . k
\*       a b c
StartBoard ==
    [sq \in Squares |->
        CASE sq = <<"b", "3">> -> Pc("w", "k")
          [] sq = <<"c", "2">> -> Pc("w", "p")
          [] sq = <<"a", "2">> -> Pc("b", "p")
          [] sq = <<"c", "1">> -> Pc("b", "k")
          [] OTHER -> Empty]

\* ------------------------------------------------------------ rules
DF(from, to) == FileNum[to[1]] - FileNum[from[1]]
DR(from, to) == RankNum[to[2]] - RankNum[from[2]]

\* The squares strictly between two squares of one line or diagonal are empty.
ClearPath(b, from, to) ==
    LET df == DF(from, to)
        dr == DR(from, to)
        n == IF Abs(df) > Abs(dr) THEN Abs(df) ELSE Abs(dr)
    IN \A k \in 1..(n - 1) :
          b[<<FileChars[FileNum[from[1]] + k * Sign(df)],
              RankChars[RankNum[from[2]] + k * Sign(dr)]>>] = Empty

\* The piece on `from` attacks square `to`.
Attacks(b, from, to) ==
    LET p == b[from]
        df == DF(from, to)
        dr == DR(from, to)
        line == (df = 0) \/ (dr = 0)
        diag == Abs(df) = Abs(dr)
    IN /\ from # to
       /\ CASE p.type = "k" -> Abs(df) <= 1 /\ Abs(dr) <= 1
            [] p.type = "n" -> {Abs(df), Abs(dr)} = {1, 2}
            [] p.type = "p" -> Abs(df) = 1 /\ dr = (IF p.color = "w" THEN 1 ELSE -1)
            [] p.type = "r" -> line /\ ClearPath(b, from, to)
            [] p.type = "b" -> diag /\ ClearPath(b, from, to)
            [] p.type = "q" -> (line \/ diag) /\ ClearPath(b, from, to)
            [] OTHER -> FALSE

Attacked(b, sq, by) == \E s \in Squares : b[s].color = by /\ Attacks(b, s, sq)

KingSquare(b, c) == CHOOSE s \in Squares : b[s] = Pc(c, "k")

InCheckOf(b, c) == Attacked(b, KingSquare(b, c), Other(c))

\* The board after the piece on m.from has moved to m.to (promoting if asked).
MakeBoard(b, m) ==
    [sq \in Squares |->
        IF sq = m.from THEN Empty
        ELSE IF sq = m.to
             THEN Pc(b[m.from].color, IF m.promotion = "" THEN b[m.from].type ELSE m.promotion)
             ELSE b[sq]]

\* A piece of colour c on `from` may move to `to`, its own king's safety aside.
Reaches(b, from, to) ==
    LET p == b[from]
    IN /\ b[to].color # p.color
       /\ IF p.type = "p"
          THEN \/ /\ DF(from, to) = 0
                  /\ DR(from, to) = (IF p.color = "w" THEN 1 ELSE -1)
                  /\ b[to] = Empty
               \/ /\ Attacks(b, from, to)
                  /\ b[to] # Empty
          ELSE Attacks(b, from, to)

\* A verbose move of chess.js: promotion is "" when the move has no such key.
MoveRec(b, from, to, promo) ==
    [from |-> from, to |-> to, color |-> b[from].color, piece |-> b[from].type,
     promotion |-> promo,
     flags |-> (IF b[to] # Empty THEN {"c"} ELSE {"n"}) \cup (IF promo = "" THEN {} ELSE {"p"})]

PromotionPieces == {"q", "r", "b", "n"}

IsLastRank(c, to) == to[2] = (IF c = "w" THEN WhiteLastRank ELSE BlackLastRank)

\* The legal moves of side c on board b, as chess.js generates them.
LegalMoves(b, c) ==
    LET cand == {ft \in Squares \X Squares : b[ft[1]].color = c /\ Reaches(b, ft[1], ft[2])}
        recs == UNION {IF b[ft[1]].type = "p" /\ IsLastRank(c, ft[2])
                       THEN {MoveRec(b, ft[1], ft[2], pr) : pr \in PromotionPieces}
                       ELSE {MoveRec(b, ft[1], ft[2], "")} : ft \in cand}
    IN {m \in recs : ~InCheckOf(MakeBoard(b, m), c)}

Insufficient(b) ==
    LET occ == {s \in Squares : b[s] # Empty}
        bishops == {s \in occ : b[s].type = "b"}
        knights == {s \in occ : b[s].type = "n"}
    IN \/ Cardinality(occ) = 2
       \/ Cardinality(occ) = 3 /\ (Cardinality(bishops) = 1 \/ Cardinality(knights) = 1)
       \/ /\ Cardinality(occ) = Cardinality(bishops) + 2
          /\ Cardinality({(FileNum[s[1]] + RankNum[s[2]]) % 2 : s \in bishops}) = 1

\* The positions a bounded game can reach, and what the rules say of each;
\* computed once, then looked up.
RECURSIVE Reach(_, _)
Reach(front, k) ==
    IF k = 0 \/ front = {} THEN front
    ELSE front \cup Reach(UNION {{[board |-> MakeBoard(pos.board, m), turn |-> Other(pos.turn)] :
                                     m \in LegalMoves(pos.board, pos.turn)} : pos \in front},
                          k - 1)

Positions == Reach({[board |-> StartBoard, turn |-> "w"]}, MaxPlies + 1)

\* A number for a position, to find it in the table below.
PieceCode(p) ==
    (CASE p.type = "-" -> 0 [] p.type = "k" -> 1 [] p.type = "p" -> 2 [] p.type = "q" -> 3
       [] p.type = "r" -> 4 [] p.type = "b" -> 5 [] p.type = "n" -> 6)
    + (IF p.color = "b" THEN 6 ELSE 0)

SquareSeq == <<<<"a", "1">>, <<"a", "2">>, <<"a", "3">>,
               <<"b", "1">>, <<"b", "2">>, <<"b", "3">>,
               <<"c", "1">>, <<"c", "2">>, <<"c", "3">>>>

HashBuckets == 127

PositionHash(b, c) ==
    LET h[i \in 0..9] ==
            IF i = 0 THEN (IF c = "w" THEN 1 ELSE 2)
            ELSE (h[i - 1] * 13 + PieceCode(b[SquareSeq[i]])) % HashBuckets
    IN h[9]

\* What chess.js answers in a position: moves(), in_check(), in_checkmate(),
\* in_stalemate(), insufficient_material(), in_threefold_repetition(),
\* in_draw() and game_over().  The fifty-move counter and a threefold
\* repetition are out of reach within the plies of a bounded game.
Answers(ms, check, insufficient, fifty, threefold) ==
    [moves |-> ms, check |-> check, mate |-> check /\ ms = {}, stale |-> ~check /\ ms = {},
     insufficient |-> insufficient, threefold |-> threefold,
     draw |-> fifty \/ (~check /\ ms = {}) \/ insufficient \/ threefold,
     over |-> fifty \/ ms = {} \/ insufficient \/ threefold]

RulesAt(pos) ==
    Answers(LegalMoves(pos.board, pos.turn), InCheckOf(pos.board, pos.turn),
            Insufficient(pos.board), FALSE, FALSE)

\* RulesAt of each reachable position, computed once.
Bucket(k) == {pos \in Positions : PositionHash(pos.board, pos.turn) = k}

Rules == [k \in 0..(HashBuckets - 1) |-> [pos \in Bucket(k) |-> RulesAt(pos)]]

\* The Chess object on board b with side c to move after n plies: what
\* board(), turn() and history().length return, and the rules' answers.
Game(b, c, n) ==
    [board |-> b, turn |-> c, plies |-> n,
     rules |-> Rules[PositionHash(b, c)][[board |-> b, turn |-> c]]]

\* new Chess() / game.reset()
NewGame == Game(StartBoard, "w", 0)

\* game.moves({verbose: true}): the legal moves of the side to move.
Moves(g) == g.rules.moves

\* game.moves({square: from, verbose: true})
MovesFrom(g, from) == {m \in Moves(g) : m.from = from}

\* game.move(mv): the generated moves that mv = {from, to, promotion} selects;
\* a generated move without a promotion key matches whatever mv.promotion is.
Matching(g, mv) ==
    {m \in Moves(g) : /\ m.from = mv.from
                      /\ m.to = mv.to
                      /\ (m.promotion = "" \/ m.promotion = mv.promotion)}

MoveAccepted(g, mv) == Matching(g, mv) # {}

\* The game after game.move(mv) succeeded.
AfterMove(g, mv) ==
    Game(MakeBoard(g.board, CHOOSE m \in Matching(g, mv) : TRUE), Other(g.turn), g.plies + 1)

InCheck(g) == g.rules.check
InCheckmate(g) == g.rules.mate
InStalemate(g) == g.rules.stale
InsufficientMaterial(g) == g.rules.insufficient
InThreefoldRepetition(g) == g.rules.threefold
InDraw(g) == g.rules.draw
GameOver(g) == g.rules.over

\* ------------------------------------------------------------ state
VARIABLES
    game,                    \* const game = new Chess()
    selectedSquare,          \* a square, or Null
    legalMovesFromSelected,  \* the target squares highlightMoves stored last
    pendingPromotion,        \* {from, to, color}, or NoPending
    manualGameOver,          \* reserved; the script never sets it
    lastAIMoveUCI,           \* the characters of the last opponent move, or Null
    dom,                     \* the texts and classes the script writes
    hasFetchEngineEval,      \* typeof window.fetchEngineEval === 'function'
    timers,                  \* pending setTimeout(engineEvaluateAndAct, ...) callbacks
    inflight,                \* evaluation requests awaiting their response, by tag
    newGames,                \* clicks on the new-game button so far
    prob                     \* the prob of the response handled last, in thousandths;
                             \* -1 before the first response

vars == <<game, selectedSquare, legalMovesFromSelected, pendingPromotion, manualGameOver,
          lastAIMoveUCI, dom, hasFetchEngineEval, timers, inflight, newGames, prob>>

NoPending == [from |-> Null, to |-> Null, color |-> ""]

\* A request is tagged (the script keeps no such record) with the side that
\* was to move when it was issued, or as stale once a new game has been
\* started since.
Tags == {"w", "b", "stale"}
InflightCount(f) == f["w"] + f["b"] + f["stale"]

\* ------------------------------------------------------------ texts
\* The content of a probability display: a marker, or `${n}%`.
TextCalculating == [kind |-> "Calculating", n |-> 0]
TextNA == [kind |-> "N/A", n |-> 0]
Pct(n) == [kind |-> "%", n |-> n]

\* ------------------------------------------------------------ updateStatus
\* StatusOf with insufficient material asked before threefold repetition: C9
\* must tell it from StatusOf.
StatusOfReordered(turnSide, over, mate, stale, threefold, insufficient, draw, check) ==
    IF over
    THEN IF mate THEN [status |-> IF turnSide = "w" THEN "Checkmate. Mahmoud won!"
                                                     ELSE "Checkmate. You won!",
                       label |-> IF turnSide = "w" THEN "Mahmoud won!" ELSE "You won!"]
         ELSE IF stale THEN [status |-> "Stalemate. Draw!", label |-> "Draw!"]
         ELSE IF insufficient THEN [status |-> "Insufficient material. Draw!", label |-> "Draw!"]
         ELSE IF threefold THEN [status |-> "Threefold repetition. Draw!", label |-> "Draw!"]
         ELSE IF draw THEN [status |-> "50-move rule. Draw!", label |-> "Draw!"]
         ELSE [status |-> "Game Over.", label |-> "Game Over"]
    ELSE [status |-> IF turnSide = "w" THEN "You to move." ELSE "Mahmoud to move.",
          label |-> ""]

\* The status text and the label of a finished game, from the predicates
\* updateStatus reads.  label is "" where updateStatus leaves whoIsWinningEl alone.
StatusOf(turnSide, over, mate, stale, threefold, insufficient, draw, check) ==
    LET turnLabel == IF turnSide = "w" THEN "You" ELSE "Mahmoud"
        winnerLabel == IF turnSide = "w" THEN "Mahmoud" ELSE "You"
    IN IF over
       THEN IF mate THEN [status |-> IF winnerLabel = "You" THEN "Checkmate. You won!"
                                                                ELSE "Checkmate. Mahmoud won!",
                          label |-> IF winnerLabel = "You" THEN "You won!" ELSE "Mahmoud won!"]
            ELSE IF stale THEN [status |-> "Stalemate. Draw!", label |-> "Draw!"]
            ELSE IF threefold THEN [status |-> "Threefold repetition. Draw!", label |-> "Draw!"]
            ELSE IF insufficient THEN [status |-> "Insufficient material. Draw!", label |-> "Draw!"]
            ELSE IF draw THEN [status |-> "50-move rule. Draw!", label |-> "Draw!"]
            ELSE [status |-> "Game Over.", label |-> "Game Over"]
       ELSE IF check
            THEN [status |-> IF turnLabel = "You" THEN "You to move. You are in check!"
                                                   ELSE "Mahmoud to move. Mahmoud is in check!",
                  label |-> ""]
            ELSE [status |-> IF turnLabel = "You" THEN "You to move." ELSE "Mahmoud to move.",
                  label |-> ""]

\* ActivePanels that keeps the indicator of the side to move when the game is
\* over: C10 must tell it from ActivePanels.
ActivePanelsKept(turnSide, over) ==
    IF turnSide = "w" THEN [left |-> TRUE, right |-> FALSE]
    ELSE [left |-> FALSE, right |-> TRUE]

\* The panels' "active" class after updateStatus.
ActivePanels(turnSide, over) ==
    IF over THEN [left |-> FALSE, right |-> FALSE]
    ELSE IF turnSide = "w" THEN [left |-> TRUE, right |-> FALSE]
    ELSE [left |-> FALSE, right |-> TRUE]

\* The status text and label updateStatus computes for game g.
Status(g) ==
    StatusOf(g.turn, GameOver(g), InCheckmate(g), InStalemate(g), InThreefoldRepetition(g),
             InsufficientMaterial(g), InDraw(g), InCheck(g))

\* updateStatus() on game g, the page being d.
UpdateStatus(g, mgo, d) ==
    IF mgo THEN d
    ELSE [d EXCEPT !.statusEl = Status(g).status,
                   !.whoIsWinningEl = IF Status(g).label = "" THEN @ ELSE Status(g).label,
                   !.whiteProbabilityEl = IF GameOver(g) THEN TextNA ELSE @,
                   !.blackProbabilityEl = IF GameOver(g) THEN TextNA ELSE @,
                   !.leftActive = ActivePanels(g.turn, GameOver(g)).left,
                   !.rightActive = ActivePanels(g.turn, GameOver(g)).right]

\* ------------------------------------------------------------ selection
\* highlightMoves(from): the value it leaves in legalMovesFromSelected.
HighlightMoves(g, from) == {m.to : m \in MovesFrom(g, from)}

\* ShouldPromptPromotion without the test of the piece's type: C2 must tell it
\* from ShouldPromptPromotion.
ShouldPromptPromotionAnyPiece(g, from, to, color) ==
    IF g.board[from] = Empty \/ g.board[from].color # color THEN FALSE
    ELSE \/ (color = "w" /\ to[2] = WhiteLastRank)
         \/ (color = "b" /\ to[2] = BlackLastRank)

ShouldPromptPromotion(g, from, to, color) ==
    LET p == g.board[from]
    IN IF p = Empty \/ p.type # "p" \/ p.color # color THEN FALSE
       ELSE \/ (color = "w" /\ to[2] = WhiteLastRank)
            \/ (color = "b" /\ to[2] = BlackLastRank)

\* syncAfterHumanMove without its setTimeout: C7 must tell it from
\* SyncAfterHumanMove.
SyncWithoutTimer(g, d) ==
    /\ dom' = UpdateStatus(g, manualGameOver, d)
    /\ timers' = timers

\* syncAfterHumanMove(): renderPieces, updateStatus and the 450 ms timer.
SyncAfterHumanMove(g, d) ==
    /\ dom' = UpdateStatus(g, manualGameOver, d)
    /\ IF ~manualGameOver /\ ~GameOver(g)
       THEN timers < MaxTimers /\ timers' = timers + 1
       ELSE timers' = timers

\* onSquareClick: a click on square sq.  A click the handler returns from
\* without a change is no step.  The handler reads neither pendingPromotion
\* nor the modal, so a click is handled alike while the modal is shown.
OnSquareClick(sq) ==
    /\ ~manualGameOver
    /\ ~GameOver(game)
    /\ game.turn = "w"
    /\ LET piece == game.board[sq]
           mv == [from |-> selectedSquare, to |-> sq, promotion |-> "q"]
       IN IF selectedSquare = Null
          THEN /\ piece.color = "w"
               /\ selectedSquare' = sq
               /\ legalMovesFromSelected' = HighlightMoves(game, sq)
               /\ UNCHANGED <<game, pendingPromotion, dom, timers>>
          ELSE IF piece.color = "w" /\ sq # selectedSquare
          THEN /\ selectedSquare' = sq
               /\ legalMovesFromSelected' = HighlightMoves(game, sq)
               /\ UNCHANGED <<game, pendingPromotion, dom, timers>>
          ELSE IF ShouldPromptPromotion(game, selectedSquare, sq, "w")
          THEN /\ pendingPromotion' = [from |-> selectedSquare, to |-> sq, color |-> "w"]
               /\ dom' = [dom EXCEPT !.promotionModal = TRUE]
               /\ UNCHANGED <<game, selectedSquare, legalMovesFromSelected, timers>>
          ELSE IF ~MoveAccepted(game, mv)
          THEN /\ IF piece.color = "w"
                  THEN /\ selectedSquare' = sq
                       /\ legalMovesFromSelected' = HighlightMoves(game, sq)
                  ELSE /\ selectedSquare' = Null
                       /\ UNCHANGED legalMovesFromSelected
               /\ UNCHANGED <<game, pendingPromotion, dom, timers>>
          ELSE /\ game.plies < MaxPlies
               /\ game' = AfterMove(game, mv)
               /\ selectedSquare' = Null
               /\ SyncAfterHumanMove(game', dom)
               /\ UNCHANGED <<legalMovesFromSelected, pendingPromotion>>
    /\ UNCHANGED <<manualGameOver, lastAIMoveUCI, hasFetchEngineEval, inflight,
                   newGames, prob>>

\* The modal's click handler with syncAfterHumanMove() in its else branch
\* too: C14 must tell it from OnPromotionClick.
OnPromotionClickSyncsRejected(p) ==
    /\ pendingPromotion # NoPending
    /\ LET mv == [from |-> pendingPromotion.from, to |-> pendingPromotion.to, promotion |-> p]
           closed == [dom EXCEPT !.promotionModal = FALSE]
       IN IF MoveAccepted(game, mv)
          THEN /\ game.plies < MaxPlies
               /\ game' = AfterMove(game, mv)
               /\ SyncAfterHumanMove(game', closed)
          ELSE /\ game' = game
               /\ SyncAfterHumanMove(game, closed)
    /\ pendingPromotion' = NoPending
    /\ UNCHANGED <<selectedSquare, legalMovesFromSelected, manualGameOver, lastAIMoveUCI,
                   hasFetchEngineEval, inflight, newGames, prob>>

\* The promotion modal's click handler, for the button of piece p.
OnPromotionClick(p) ==
    /\ pendingPromotion # NoPending
    /\ LET mv == [from |-> pendingPromotion.from, to |-> pendingPromotion.to, promotion |-> p]
           closed == [dom EXCEPT !.promotionModal = FALSE]
       IN IF MoveAccepted(game, mv)
          THEN /\ game.plies < MaxPlies
               /\ game' = AfterMove(game, mv)
               /\ SyncAfterHumanMove(game', closed)
          ELSE /\ dom' = UpdateStatus(game, manualGameOver, closed)
               /\ UNCHANGED <<game, timers>>
    /\ pendingPromotion' = NoPending
    /\ UNCHANGED <<selectedSquare, legalMovesFromSelected, manualGameOver, lastAIMoveUCI,
                   hasFetchEngineEval, inflight, newGames, prob>>

\* ------------------------------------------------------------ uciToMove
\* The characters a recommended move may be made of; toLowerCase maps the
\* upper-case ones, trim removes the blanks at either end.
ToLower(ch) ==
    CASE ch = "A" -> "a" [] ch = "B" -> "b" [] ch = "C" -> "c"
      [] ch = "Q" -> "q" [] ch = "R" -> "r" [] ch = "N" -> "n" [] ch = "K" -> "k"
      [] OTHER -> ch

ToUpper(ch) ==
    CASE ch = "a" -> "A" [] ch = "b" -> "B" [] ch = "c" -> "C"
      [] ch = "q" -> "Q" [] ch = "r" -> "R" [] ch = "n" -> "N" [] ch = "k" -> "K"
      [] OTHER -> ch

RECURSIVE TrimLeft(_)
TrimLeft(s) == IF s # << >> /\ Head(s) = " " THEN TrimLeft(Tail(s)) ELSE s

RECURSIVE TrimRight(_)
TrimRight(s) ==
    IF s # << >> /\ s[Len(s)] = " " THEN TrimRight(SubSeq(s, 1, Len(s) - 1)) ELSE s

Trim(s) == TrimRight(TrimLeft(s))

NullMove == [from |-> Null, to |-> Null, promotion |-> ""]

\* uci.trim().toLowerCase()
Normalised(uci) == [i \in 1..Len(Trim(uci)) |-> ToLower(Trim(uci)[i])]

\* uciToMove(uci): {from, to, promotion} (promotion "" when absent), or NullMove.
UciToMove(uci) ==
    IF uci = Null \/ Len(Trim(uci)) < 4 THEN NullMove
    ELSE [from |-> SubSeq(Normalised(uci), 1, 2), to |-> SubSeq(Normalised(uci), 3, 4),
          promotion |-> IF Len(Trim(uci)) >= 5 THEN Normalised(uci)[5] ELSE ""]

\* `${from}${to}${promotion || ''}`
UciOf(from, to, promotion) == from \o to \o (IF promotion = "" THEN << >> ELSE <<promotion>>)

\* ------------------------------------------------------------ the evaluation collaborator
\* Win probabilities, in thousandths.
ProbInputs == {500}

\* Math.round(prob * 100) for prob = p / 1000, the product taken exactly.
RoundPct(p) == (p + 5) \div 10

\* The values Math.round(prob * 100) may have: p / 1000 and its product with
\* 100 are doubles, so a product that would be a half exactly may fall on
\* either side of it (0.145 * 100 is 14.499999999999998).
Rounded(p) == IF p % 10 = 5 THEN {p \div 10, RoundPct(p)} ELSE {RoundPct(p)}

\* WhoIsWinning that asks for the leader first: C11 must tell it from
\* WhoIsWinning.
WhoIsWinningLeaderFirst(wPct) == IF wPct >= 50 THEN "You" ELSE "Mahmoud"

WhoIsWinning(wPct) == IF wPct = 50 THEN "Balanced" ELSE IF wPct > 50 THEN "You" ELSE "Mahmoud"

\* The recommended moves a response may carry for game g: each legal move in
\* coordinate notation; a promotion with a letter that names no promotion
\* piece, and padded in upper case; a plain move with a spurious fifth
\* letter; a move of another position; a string too short; none at all.
BestMoveInputs(g) ==
    LET ms == Moves(g)
    IN {UciOf(m.from, m.to, m.promotion) : m \in ms}
       \cup {UciOf(m.from, m.to, "k") : m \in {x \in ms : x.promotion = "q"}}
       \cup {<<" ">> \o [i \in 1..5 |-> ToUpper(UciOf(m.from, m.to, m.promotion)[i])] :
                m \in {x \in ms : x.promotion = "r"}}
       \cup {UciOf(m.from, m.to, "q") : m \in {x \in ms : x.promotion = "" /\ "c" \in x.flags}}
       \cup {<<"c", "2", "c", "3", "q">>, <<"a", "2">>, Null}

\* ------------------------------------------------------------ engineEvaluateAndAct
NoMove == MoveRec(StartBoard, <<"a", "1">>, <<"a", "1">>, "")

\* Lines 318-334: the random fallback, renderPieces and updateStatus, from
\* game g1, page d1 and last-move record last1.
EngineFinish(g1, moved, d1, last1) ==
    \E m \in (IF ~moved /\ g1.turn = "b" /\ ~GameOver(g1) /\ Moves(g1) # {}
              THEN Moves(g1) ELSE {NoMove}) :
        /\ game' = IF m = NoMove THEN g1
                   ELSE AfterMove(g1, [from |-> m.from, to |-> m.to,
                                       promotion |-> IF "p" \in m.flags THEN "q" ELSE ""])
        /\ lastAIMoveUCI' = IF m = NoMove THEN last1 ELSE UciOf(m.from, m.to, m.promotion)
        /\ dom' = UpdateStatus(game', manualGameOver, d1)

\* engineEvaluateAndAct without the test of line 274: C13 must tell it from
\* EngineEvaluateAndAct.
EngineEvaluateAndActUntested ==
    IF hasFetchEngineEval
    THEN /\ InflightCount(inflight) < MaxInflight
         /\ inflight' = [inflight EXCEPT ![game.turn] = @ + 1]
         /\ dom' = [dom EXCEPT !.whiteProbabilityEl = TextCalculating,
                               !.blackProbabilityEl = TextCalculating]
         /\ UNCHANGED <<game, lastAIMoveUCI>>
    ELSE /\ EngineFinish(game, FALSE, [dom EXCEPT !.whiteProbabilityEl = TextCalculating,
                                                  !.blackProbabilityEl = TextCalculating],
                         lastAIMoveUCI)
         /\ UNCHANGED inflight

\* Lines 273-284: engineEvaluateAndAct up to its await, or all of it when
\* window.fetchEngineEval is no function.
EngineEvaluateAndAct ==
    IF manualGameOver \/ GameOver(game)
    THEN UNCHANGED <<game, lastAIMoveUCI, dom, inflight>>
    ELSE LET calc == [dom EXCEPT !.whiteProbabilityEl = TextCalculating,
                                 !.blackProbabilityEl = TextCalculating]
         IN IF hasFetchEngineEval
            THEN /\ InflightCount(inflight) < MaxInflight
                 /\ inflight' = [inflight EXCEPT ![game.turn] = @ + 1]
                 /\ dom' = calc
                 /\ UNCHANGED <<game, lastAIMoveUCI>>
            ELSE /\ EngineFinish(game, FALSE, calc, lastAIMoveUCI)
                 /\ UNCHANGED inflight

\* ApplyBestMove without the retry that forces a queen: C8 must tell it from
\* ApplyBestMove.
ApplyBestMoveNoRetry(g, best_move, last) ==
    IF /\ g.turn = "b" /\ ~GameOver(g) /\ UciToMove(best_move) # NullMove
       /\ MoveAccepted(g, UciToMove(best_move))
    THEN [game |-> AfterMove(g, UciToMove(best_move)), moved |-> TRUE, last |-> best_move]
    ELSE [game |-> g, moved |-> FALSE, last |-> last]

\* Lines 292-312: the recommended move applied to g, if it is black's turn.
\* The result is the game, whether a move was made, and the last-move record.
ApplyBestMove(g, best_move, last) ==
    IF g.turn = "b" /\ ~GameOver(g) /\ UciToMove(best_move) # NullMove
    THEN IF MoveAccepted(g, UciToMove(best_move))
         THEN [game |-> AfterMove(g, UciToMove(best_move)), moved |-> TRUE, last |-> best_move]
         ELSE IF /\ UciToMove(best_move).promotion # ""
                 /\ MoveAccepted(g, [UciToMove(best_move) EXCEPT !.promotion = "q"])
              THEN [game |-> AfterMove(g, [UciToMove(best_move) EXCEPT !.promotion = "q"]),
                    moved |-> TRUE,
                    last |-> UciOf(UciToMove(best_move).from, UciToMove(best_move).to, "q")]
              ELSE [game |-> g, moved |-> FALSE, last |-> last]
    ELSE [game |-> g, moved |-> FALSE, last |-> last]

\* Lines 286-290: the displays after a response whose prob rounds to wPct.
ShowProbability(d, wPct) ==
    [d EXCEPT !.whiteProbabilityEl = Pct(wPct),
              !.blackProbabilityEl = Pct(100 - wPct),
              !.whoIsWinningEl = WhoIsWinning(wPct)]

\* The request tagged t resolves with {prob, best_move}: lines 284-334.
EvalResolved(t, p, best_move) ==
    /\ inflight[t] > 0
    /\ inflight' = [inflight EXCEPT ![t] = @ - 1]
    /\ prob' = p
    /\ \E r \in {ApplyBestMove(game, best_move, lastAIMoveUCI)}, wPct \in Rounded(p) :
          EngineFinish(r.game, r.moved, ShowProbability(dom, wPct), r.last)
    /\ UNCHANGED <<selectedSquare, legalMovesFromSelected, pendingPromotion, manualGameOver,
                   hasFetchEngineEval, timers, newGames>>

\* The request tagged t rejects, or its payload cannot be destructured: the
\* catch of lines 313-315, then lines 318-334.
EvalFailed(t) ==
    /\ inflight[t] > 0
    /\ inflight' = [inflight EXCEPT ![t] = @ - 1]
    /\ EngineFinish(game, FALSE, dom, lastAIMoveUCI)
    /\ UNCHANGED <<selectedSquare, legalMovesFromSelected, pendingPromotion, manualGameOver,
                   hasFetchEngineEval, timers, newGames, prob>>

\* A setTimeout(engineEvaluateAndAct, ...) callback runs.
TimerFires ==
    /\ timers > 0
    /\ timers' = timers - 1
    /\ EngineEvaluateAndAct
    /\ UNCHANGED <<selectedSquare, legalMovesFromSelected, pendingPromotion, manualGameOver,
                   hasFetchEngineEval, newGames, prob>>

\* The engineClientReady event: the evaluation client, loaded after the
\* script, has defined window.fetchEngineEval; the listener of lines 362-364
\* calls engineEvaluateAndAct, which now finds the function.
EngineClientReady ==
    /\ ~hasFetchEngineEval
    /\ hasFetchEngineEval' = TRUE
    /\ IF manualGameOver \/ GameOver(game)
       THEN UNCHANGED <<game, lastAIMoveUCI, dom, inflight>>
       ELSE /\ InflightCount(inflight) < MaxInflight
            /\ inflight' = [inflight EXCEPT ![game.turn] = @ + 1]
            /\ dom' = [dom EXCEPT !.whiteProbabilityEl = TextCalculating,
                                  !.blackProbabilityEl = TextCalculating]
            /\ UNCHANGED <<game, lastAIMoveUCI>>
    /\ UNCHANGED <<selectedSquare, legalMovesFromSelected, pendingPromotion, manualGameOver,
                   timers, newGames, prob>>

\* ------------------------------------------------------------ startNewGame
StartNewGame ==
    /\ newGames < MaxNewGames
    /\ timers < MaxTimers
    /\ newGames' = newGames + 1
    /\ game' = NewGame
    /\ selectedSquare' = Null
    /\ pendingPromotion' = NoPending
    /\ manualGameOver' = FALSE
    /\ lastAIMoveUCI' = Null
    /\ dom' = [UpdateStatus(NewGame, FALSE, dom) EXCEPT !.promotionModal = FALSE]
    /\ timers' = timers + 1
    /\ inflight' = [t \in Tags |-> IF t = "stale" THEN InflightCount(inflight) ELSE 0]
    /\ UNCHANGED <<legalMovesFromSelected, hasFetchEngineEval, prob>>

InitDom ==
    [statusEl |-> "", whoIsWinningEl |-> "", whiteProbabilityEl |-> TextCalculating,
     blackProbabilityEl |-> TextCalculating, leftActive |-> FALSE, rightActive |-> FALSE,
     promotionModal |-> FALSE]

Init ==
    /\ game = NewGame
    /\ selectedSquare = Null
    /\ legalMovesFromSelected = {}
    /\ pendingPromotion = NoPending
    /\ manualGameOver = FALSE
    /\ lastAIMoveUCI = Null
    /\ dom = UpdateStatus(NewGame, FALSE, InitDom)
    /\ hasFetchEngineEval = FALSE
    /\ timers = 0
    /\ inflight = [t \in Tags |-> 0]
    /\ newGames = 0
    /\ prob = -1

\* A response arrives for some outstanding request.
EvalResponds ==
    \E t \in Tags, p \in ProbInputs :
       \E best_move \in (IF game.turn = "b" THEN BestMoveInputs(game) ELSE {Null}) :
          EvalResolved(t, p, best_move)

Next ==
    \/ \E sq \in Squares : OnSquareClick(sq)
    \/ \E p \in PromotionPieces : OnPromotionClick(p)
    \/ StartNewGame
    \/ TimerFires
    \/ EngineClientReady
    \/ EvalResponds
    \/ \E t \in Tags : EvalFailed(t)

Spec == Init /\ [][Next]_vars

\* ------------------------------------------------------------ updateStatus on its own
\* A Chess object whose predicates answer as r says, whatever its board.
StubGame(c, r) == [board |-> StartBoard, turn |-> c, plies |-> 0, rules |-> r]

\* Every answer the predicates updateStatus reads can give.
StubRules ==
    [moves : {{}}, check : BOOLEAN, mate : BOOLEAN, stale : BOOLEAN, insufficient : BOOLEAN,
     threefold : BOOLEAN, draw : BOOLEAN, over : BOOLEAN]

StatusInit ==
    /\ game \in {StubGame(c, r) : c \in {"w", "b"}, r \in StubRules}
    /\ selectedSquare = Null
    /\ legalMovesFromSelected = {}
    /\ pendingPromotion = NoPending
    /\ manualGameOver \in BOOLEAN
    /\ lastAIMoveUCI = Null
    /\ dom = InitDom
    /\ hasFetchEngineEval = FALSE
    /\ timers = 0
    /\ inflight = [t \in Tags |-> 0]
    /\ newGames = 0
    /\ prob = -1

\* updateStatus() called on the stub.
StatusStep ==
    /\ dom' = UpdateStatus(game, manualGameOver, dom)
    /\ UNCHANGED <<game, selectedSquare, legalMovesFromSelected, pendingPromotion,
                   manualGameOver, lastAIMoveUCI, hasFetchEngineEval, timers, inflight,
                   newGames, prob>>

SpecStatus == StatusInit /\ [][StatusStep]_vars

\* ------------------------------------------------------------ the displays on their own
\* Every prob of [0, 1] on the grid of thousandths.
ProbGrid == 0..1000

\* A response with prob on the grid has arrived; lines 286-290 have not run.
ProbInit ==
    /\ game = NewGame
    /\ selectedSquare = Null
    /\ legalMovesFromSelected = {}
    /\ pendingPromotion = NoPending
    /\ manualGameOver = FALSE
    /\ lastAIMoveUCI = Null
    /\ dom = InitDom
    /\ hasFetchEngineEval = TRUE
    /\ timers = 0
    /\ inflight = [t \in Tags |-> 0]
    /\ newGames = 0
    /\ prob \in ProbGrid

\* Lines 286-290 run on it.
ProbStep ==
    /\ \E wPct \in Rounded(prob) : dom' = ShowProbability(dom, wPct)
    /\ UNCHANGED <<game, selectedSquare, legalMovesFromSelected, pendingPromotion,
                   manualGameOver, lastAIMoveUCI, hasFetchEngineEval, timers, inflight,
                   newGames, prob>>

SpecProb == ProbInit /\ [][ProbStep]_vars

\* ------------------------------------------------------------ fairness
\* An outstanding request resolves or rejects.
EvalSettles == EvalResponds \/ \E t \in Tags : EvalFailed(t)

\* Every scheduled timer fires, and every request settles.
FairSpec == Spec /\ WF_vars(TimerFires) /\ WF_vars(EvalSettles)

\* ------------------------------------------------------------ properties
\* The steps of the human's two inputs.
ClickStep == \E sq \in Squares : OnSquareClick(sq)
ChoiceStep == \E p \in PromotionPieces : OnPromotionClick(p)

\* C1: in every reachable state at most one of selectedSquare and
\* pendingPromotion is non-empty.
C1_SelectionOrPending == selectedSquare = Null \/ pendingPromotion = NoPending

\* It is the human's turn in a position that is not terminal, and a square
\* holding a human piece is selected.
HumanSourceSelected ==
    /\ ~manualGameOver /\ ~GameOver(game) /\ game.turn = "w"
    /\ selectedSquare # Null
    /\ game.board[selectedSquare].color = "w"

\* The step moved the piece on s to t and gave the turn to the opponent.
MoveApplied(s, t) ==
    /\ game'.board = [game.board EXCEPT ![s] = Empty, ![t] = game.board[s]]
    /\ game'.turn = "b"

\* C2 as stated: with a human source selected, a click on a legal destination
\* applies the move and flips the turn, and a click anywhere else leaves the
\* position unchanged.
C2_ClickAppliesEveryLegalMove ==
    [][\A t \in Squares :
          (HumanSourceSelected /\ OnSquareClick(t)) =>
             IF t \in {m.to : m \in MovesFrom(game, selectedSquare)}
             THEN MoveApplied(selectedSquare, t)
             ELSE game' = game]_vars

\* C2, amended: with a human source selected, a click on a legal destination
\* applies the move and flips the turn unless the move takes a pawn to the
\* final rank, in which case the position is unchanged, the move is recorded
\* as the pending promotion and the modal is opened; a click anywhere else
\* leaves the position unchanged.
C2_ClickAppliesLegalMove ==
    [][\A t \in Squares :
          (HumanSourceSelected /\ OnSquareClick(t)) =>
             IF t \in {m.to : m \in MovesFrom(game, selectedSquare)}
             THEN IF game.board[selectedSquare].type = "p" /\ t[2] = WhiteLastRank
                  THEN /\ game' = game
                       /\ pendingPromotion' = [from |-> selectedSquare, to |-> t, color |-> "w"]
                       /\ dom'.promotionModal
                  ELSE MoveApplied(selectedSquare, t)
             ELSE game' = game]_vars

\* A human king move was applied by a click, and the opponent is to move.
C2_Witness ==
    /\ game.plies = 1 /\ game.turn = "b"
    /\ game.board[<<"a", "3">>] = Pc("w", "k")
    /\ selectedSquare = Null

\* C3: a human pawn move to the final rank is applied only through the modal:
\* the position does not change while the promotion is pending, and after
\* the choice of piece p the destination holds a human piece of type p.
C3_PromotionThroughModal ==
    [][/\ (pendingPromotion # NoPending /\ pendingPromotion' = pendingPromotion) => game' = game
       /\ \A p \in PromotionPieces :
             OnPromotionClick(p) =>
                game'.board[pendingPromotion.to] = Pc(pendingPromotion.color, p)]_vars

\* C4: once the position is terminal both probability displays read N/A
\* after every handler, and no step but a new game changes the position.
C4_TerminalIsFrozen ==
    [][/\ GameOver(game') => /\ dom'.whiteProbabilityEl = TextNA
                             /\ dom'.blackProbabilityEl = TextNA
       /\ GameOver(game) => (game' = game \/ StartNewGame)]_vars

\* C5: no cell click and no promotion choice changes the position while it
\* is the opponent's turn.
C5_NoHumanMoveOnOpponentTurn ==
    [][((ClickStep \/ ChoiceStep) /\ game.turn = "b") => game' = game]_vars

\* A response arrives whose request was issued before the last new game.
StaleArrives == inflight'["stale"] < inflight["stale"]

\* C6: a response to a request issued before a new game is discarded: it
\* changes neither the position nor the probability displays.
C6_StaleResponseDiscarded ==
    [][StaleArrives => /\ game' = game
                       /\ dom'.whiteProbabilityEl = dom.whiteProbabilityEl
                       /\ dom'.blackProbabilityEl = dom.blackProbabilityEl]_vars

\* C7: under FairSpec, whenever the opponent is to move in a position that is
\* not terminal, eventually it is the human's turn again or the game is over.
C7_OpponentEventuallyMoves ==
    (game.turn = "b" /\ ~GameOver(game)) ~> (game.turn = "w" \/ GameOver(game))

\* The opponent has answered a human move.
C7_Witness == game.plies = 2 /\ game.turn = "w" /\ lastAIMoveUCI # Null /\ newGames = 0

\* The move the cascade of C8 asks for, given the recommended move bm (Null
\* when there is none or the request failed).
RecommendedAccepted(bm) == UciToMove(bm) # NullMove /\ MoveAccepted(game, UciToMove(bm))
QueenRetryAccepted(bm) ==
    /\ UciToMove(bm) # NullMove
    /\ UciToMove(bm).promotion # ""
    /\ MoveAccepted(game, [UciToMove(bm) EXCEPT !.promotion = "q"])
CascadeMove(bm) ==
    /\ game'.plies = game.plies + 1
    /\ game'.turn = "w"
    /\ IF RecommendedAccepted(bm)
       THEN game' = AfterMove(game, UciToMove(bm))
       ELSE IF QueenRetryAccepted(bm)
            THEN game' = AfterMove(game, [UciToMove(bm) EXCEPT !.promotion = "q"])
            ELSE \E m \in Moves(game) :
                    game'.board = MakeBoard(game.board,
                                            [m EXCEPT !.promotion = IF @ = "" THEN "" ELSE "q"])

\* C8: an evaluation cycle that completes on the opponent's turn in a
\* position that is not terminal applies exactly one opponent move: the
\* recommended move if accepted; else, if it carried a promotion letter, the
\* same move promoting to a queen if accepted; else a legal move, promoting
\* to a queen if it is a promotion.
C8_MoveCascade ==
    [][(game.turn = "b" /\ ~GameOver(game)) =>
          /\ \A t \in Tags, p \in ProbInputs, bm \in BestMoveInputs(game) :
                EvalResolved(t, p, bm) => CascadeMove(bm)
          /\ (\E t \in Tags : EvalFailed(t)) => CascadeMove(Null)
          /\ (TimerFires /\ ~hasFetchEngineEval) => CascadeMove(Null)]_vars

\* The opponent has promoted to a queen.
C8_Witness ==
    /\ game.turn = "w" /\ game.plies = 2
    /\ game.board[<<"a", "1">>] = Pc("b", "q")

\* The text C9 asks for in a finished game.
ExpectedStatus(g) ==
    CASE InCheckmate(g) ->
            IF g.turn = "b" THEN "Checkmate. You won!" ELSE "Checkmate. Mahmoud won!"
      [] ~InCheckmate(g) /\ InStalemate(g) -> "Stalemate. Draw!"
      [] ~InCheckmate(g) /\ ~InStalemate(g) /\ InThreefoldRepetition(g) ->
            "Threefold repetition. Draw!"
      [] /\ ~InCheckmate(g) /\ ~InStalemate(g) /\ ~InThreefoldRepetition(g)
         /\ InsufficientMaterial(g) -> "Insufficient material. Draw!"
      [] /\ ~InCheckmate(g) /\ ~InStalemate(g) /\ ~InThreefoldRepetition(g)
         /\ ~InsufficientMaterial(g) /\ InDraw(g) -> "50-move rule. Draw!"
      [] OTHER -> "Game Over."

\* C9: for every combination of the predicates with game over true, the
\* status text updateStatus wrote is that of the first predicate that holds,
\* in the order checkmate, stalemate, threefold repetition, insufficient
\* material, other draw, game over; a checkmate names the side not to move.
C9_StatusPrecedence ==
    (dom.statusEl # "" /\ GameOver(game)) => dom.statusEl = ExpectedStatus(game)

\* updateStatus wrote the threefold text though lower predicates hold too.
C9_Witness ==
    /\ dom.statusEl = "Threefold repetition. Draw!"
    /\ InsufficientMaterial(game) /\ InDraw(game) /\ InCheck(game)

\* C10: after every handler, a position that is not terminal has exactly the
\* panel of the side to move active, and a terminal one has neither.
C10_ActivePanel ==
    IF GameOver(game)
    THEN ~dom.leftActive /\ ~dom.rightActive
    ELSE /\ dom.leftActive <=> game.turn = "w"
         /\ dom.rightActive <=> game.turn = "b"

\* A game has ended and neither panel is active.
C10_Witness == GameOver(game) /\ game.plies > 0 /\ ~dom.leftActive /\ ~dom.rightActive

\* C11: for every prob of [0, 1] on the grid of thousandths, the displayed
\* percentages are integers of 0..100 that sum to 100, the human's is prob
\* times 100 rounded, and the label is "Balanced" exactly when the human's
\* percentage is 50, "You" above it and "Mahmoud" below; prob 0.5 gives
\* 50%, 50% and "Balanced".
C11_ProbabilityDisplays ==
    dom.whiteProbabilityEl.kind = "%" =>
        /\ dom.blackProbabilityEl.kind = "%"
        /\ dom.whiteProbabilityEl.n \in 0..100
        /\ dom.blackProbabilityEl.n \in 0..100
        /\ dom.whiteProbabilityEl.n + dom.blackProbabilityEl.n = 100
        /\ (10 * dom.whiteProbabilityEl.n - prob) \in -5..5
        /\ dom.whoIsWinningEl = "Balanced" <=> dom.whiteProbabilityEl.n = 50
        /\ dom.whiteProbabilityEl.n > 50 => dom.whoIsWinningEl = "You"
        /\ dom.whiteProbabilityEl.n < 50 => dom.whoIsWinningEl = "Mahmoud"
        /\ prob = 500 => dom.whiteProbabilityEl.n = 50

\* The displays of prob 0.5.
C11_Witness ==
    /\ prob = 500
    /\ dom.whiteProbabilityEl = Pct(50) /\ dom.blackProbabilityEl = Pct(50)
    /\ dom.whoIsWinningEl = "Balanced"

\* C12: after startNewGame the position is the starting position with the
\* human to move, the selected cell and its stored destinations are empty,
\* the pending promotion and the last-opponent-move record are empty, the
\* modal is closed and exactly one evaluation cycle has been scheduled.
C12_NewGameResets ==
    [][StartNewGame =>
          /\ game' = NewGame /\ game'.turn = "w"
          /\ selectedSquare' = Null
          /\ legalMovesFromSelected' = {}
          /\ pendingPromotion' = NoPending
          /\ lastAIMoveUCI' = Null
          /\ ~dom'.promotionModal
          /\ timers' = timers + 1]_vars

\* engineEvaluateAndAct starts: a timer callback runs, or the readiness
\* event arrives.
CycleStarts == timers' < timers \/ hasFetchEngineEval' # hasFetchEngineEval

\* C13: an engineEvaluateAndAct that starts while the position is terminal
\* issues no request and leaves the position, both probability displays,
\* the label, the status text and the last-opponent-move record unchanged.
C13_TerminalCycleIsNoOp ==
    [][(CycleStarts /\ GameOver(game)) =>
          /\ inflight' = inflight
          /\ game' = game
          /\ dom' = dom
          /\ lastAIMoveUCI' = lastAIMoveUCI]_vars

\* A timer is pending in a finished game of a client that is ready.
C13_Witness == GameOver(game) /\ timers > 0 /\ hasFetchEngineEval

\* The move a choice of piece p hands to the rules.
PendingMove(p) ==
    [from |-> pendingPromotion.from, to |-> pendingPromotion.to, promotion |-> p]

\* C14: when the rules reject the move of a promotion choice, the pending
\* promotion is discarded, the modal is closed, the position and the side
\* to move are unchanged, and no cycle is scheduled or started.
C14_RejectedChoice ==
    [][\A p \in PromotionPieces :
          (OnPromotionClick(p) /\ ~MoveAccepted(game, PendingMove(p))) =>
              /\ pendingPromotion' = NoPending
              /\ ~dom'.promotionModal
              /\ game'.board = game.board
              /\ game'.turn = game.turn
              /\ timers' = timers
              /\ inflight' = inflight]_vars

\* The modal is shown for a move that the rules reject with every piece.
C14_Witness ==
    /\ pendingPromotion # NoPending
    /\ dom.promotionModal
    /\ \A p \in PromotionPieces : ~MoveAccepted(game, PendingMove(p))

\* C15: whenever a request issued on the opponent's turn is outstanding,
\* it is not the human's turn.
C15_OpponentRequestOnOpponentTurn == inflight["b"] > 0 => game.turn # "w"

\* A click on a square that holds no piece of the human, made with a
\* square selected and no promotion to prompt for: the move is tried.
MoveTried(sq) ==
    /\ OnSquareClick(sq)
    /\ selectedSquare # Null
    /\ game.board[sq].color # "w"
    /\ ~ShouldPromptPromotion(game, selectedSquare, sq, "w")

\* C16: no square is selected after a human move is completed, by a click
\* or through the modal, nor after an attempt is aborted, by a rejected
\* move to a square that holds no piece of the human or by a rejected
\* choice; so no square is selected on the opponent's turn.
C16_SelectionCleared ==
    [][/\ ((\E sq \in Squares : MoveTried(sq)) \/ ChoiceStep) => selectedSquare' = Null
       /\ game'.turn = "b" => selectedSquare' = Null]_vars

\* A pending promotion is recorded in this step.
PendingRecorded == pendingPromotion' # NoPending /\ pendingPromotion' # pendingPromotion

\* C17: a pending promotion is recorded only for a move whose destination
\* is a legal destination of its source pawn, so that a choice made in the
\* same position is accepted whatever the piece.
C17_PendingIsValidated ==
    [][PendingRecorded =>
          /\ pendingPromotion'.to \in HighlightMoves(game', pendingPromotion'.from)
          /\ \A p \in PromotionPieces :
                MoveAccepted(game', [from |-> pendingPromotion'.from,
                                     to |-> pendingPromotion'.to, promotion |-> p])]_vars

\* C18: a pending promotion exists only on the human's turn, and the
\* position is not changed while it is pending: no other human move and no
\* opponent move is applied before the choice, so a choice never applies a
\* move recorded in an earlier turn.
C18_PendingInItsPosition ==
    [][/\ pendingPromotion' # NoPending => game'.turn = "w"
       /\ (pendingPromotion # NoPending /\ pendingPromotion' # NoPending) =>
             game'.board = game.board]_vars

\* A step of the opponent's cycle: it starts, or a response or a failure
\* completes it.
CycleStep == TimerFires \/ EngineClientReady \/ EvalResponds

\* A cycle step changes the position only on the opponent's turn, and then
\* by one move that hands the turn to the human.
CycleMovesOnceOnItsTurn ==
    (CycleStep /\ game' # game) =>
        /\ game.turn = "b"
        /\ game'.plies = game.plies + 1
        /\ game'.turn = "w"

\* A human input changes the position only on the human's turn, handing
\* the turn to the opponent.
HumanMovesOnOwnTurn ==
    ((ClickStep \/ ChoiceStep) /\ game' # game) =>
        /\ game.turn = "w"
        /\ game'.plies = game.plies + 1
        /\ game'.turn = "b"

\* C19: the opponent's cycle never changes the position on the human's
\* turn; a completion applies at most one move, and only when the opponent
\* is to move; so the moves of the human and of the opponent alternate,
\* exactly one opponent move between two consecutive human moves.
C19_MovesAlternate == [][CycleMovesOnceOnItsTurn /\ HumanMovesOnOwnTurn]_vars

\* The coordinate notations of the moves of g that lead to the position of
\* g2: source, destination and the letter of the piece promoted to.
AppliedNotation(g, g2) ==
    {UciOf(m.from, m.to, m.promotion) :
        m \in {x \in Moves(g) :
                 AfterMove(g, [from |-> x.from, to |-> x.to,
                               promotion |-> x.promotion]).board = g2.board}}

\* C20: after every move of the opponent, lastAIMoveUCI is the coordinate
\* notation of the move that was applied: its source, its destination and
\* the letter of the piece actually promoted to.
C20_LastMoveIsTheMoveApplied ==
    [][(CycleStep /\ game'.board # game.board) =>
          lastAIMoveUCI' \in AppliedNotation(game, game')]_vars
=============================================================================
